---------------------------- MODULE Spec2Model ----------------------------
(***************************************************************************)
(* A model of lib/pyfits/diff.py (fitsdiff): the orchestrator of one       *)
(* comparison run, the header detectors, the table and image comparators   *)
(* and the array differ diff_num.                                          *)
(*                                                                         *)
(* Reading conventions.  The names the file uses without importing them    *)
(* are read as what they evidently stand for: num is numpy, types is the   *)
(* standard types module, __version__ is the module's version string.      *)
(* Array values are modelled exactly: a float is an integer or NaN, the    *)
(* quotient x/delta is kept as the numerator x*delta.d over the implicit   *)
(* denominator delta.n, and an integer array keeps its width: its          *)
(* subtraction and its absolute value wrap modulo 2^IntBits as numpy's do. *)
(***************************************************************************)
EXTENDS Integers, Sequences, FiniteSets, TLC

VARIABLES
    \* ---- one diff_num call (specification SpecNum) ----
    npc,        \* "call" before the call, then the branch that returned
    kind,       \* element kind of both arrays: "f" float, "i" signed, "u" unsigned, "a" text
    shape,      \* the arrays' shape, slowest axis first
    num1, num2, \* the two arrays, flattened in storage order
    ndelta,     \* the delta argument, a rational [n, d]
    found,      \* the returned coordinate tuple: one index sequence per axis
    rep,        \* the discrepancy lines compare_img prints for that tuple
    \* ---- one fitsdiff run (specification Spec) ----
    pc,         \* the statement the run is at
    opts,       \* the parsed arguments: value_excl_list, comment_excl_list,
                \* field_excl_list, maxdiff, delta
    same,       \* input1 and input2 name the same file
    im1, im2,   \* the two files: handle state and number of units
    i,          \* the unit loop's index
    u1, u2,     \* im1[i] and im2[i]; their free cards are kept while the header
                \* detectors run (lines 60-73) and not read after them
    dicts,      \* dict_value1, dict_value2, dict_comment1, dict_comment2
    nodiff,     \* the global difference-free flag
    dim,        \* compare_dim's result, <<>> for None
    rev,        \* nodiff and compare_table's ndiff of the run on the same two
                \* files given in the other order
    img,        \* compare_img's call of diff_num: arguments and returned tuple
    tbl,        \* compare_table's locals: col, ndiff, maxdiff, the data-is-None flags
    out,        \* the report lines of the current unit
    colDiffs,   \* the discrepancies diff_num found in each compared column
    exc,        \* the exception that ended the run, "" for none
    ret,        \* the returned verdict, -1 while nothing is returned
    final,      \* the final no-difference line was printed
    \* ---- one diff_obj call (specification SpecObj) ----
    opc,        \* "call" before the call, then the branch that returned
    obj1, obj2, \* the two header values
    odelta,     \* the delta argument, a rational [n, d]
    odiff       \* the returned truth value

numvars == <<npc, kind, shape, num1, num2, ndelta, found, rep>>
runvars == <<pc, opts, same, im1, im2, i, u1, u2, dicts, nodiff, dim, tbl, img,
             rev, out, colDiffs, exc, ret, final>>
objvars == <<opc, obj1, obj2, odelta, odiff>>
vars    == <<numvars, runvars, objvars>>

\* the variables of a part that is not exercised by the specification at hand
NumIdle ==
    /\ npc = "idle" /\ kind = "f" /\ shape = <<>> /\ num1 = <<>> /\ num2 = <<>>
    /\ ndelta = [n |-> 0, d |-> 1] /\ found = <<>> /\ rep = <<>>

RunIdle ==
    /\ pc = "idle"
    /\ opts = <<>> /\ same = FALSE /\ im1 = <<>> /\ im2 = <<>> /\ i = 0
    /\ u1 = <<>> /\ u2 = <<>> /\ dicts = <<>> /\ nodiff = 0 /\ dim = <<>>
    /\ tbl = <<>> /\ img = <<>> /\ rev = <<>> /\ out = <<>> /\ colDiffs = <<>> /\ exc = "" /\ ret = 0 - 1
    /\ final = FALSE

ObjIdle ==
    /\ opc = "idle" /\ obj1 = <<>> /\ obj2 = <<>>
    /\ odelta = [n |-> 0, d |-> 1] /\ odiff = FALSE

--------------------------------------------------------------------------
(* Bounds of the array inputs. *)
MaxLen == 6     \* elements of an array

\* An array is a freely drawn prefix of at most a third of MaxLen elements,
\* followed by one equal pair repeated: both sides of line 364 are reached.
MaxFree == MaxLen \div 3

(* Width of the modelled integer dtypes (int16, uint8, ... scaled down). *)
IntBits == 2

Mod  == 2 ^ IntBits
Half == 2 ^ (IntBits - 1)

(* IEEE not-a-number, encoded outside every value range. *)
NaN == 2 ^ 10

Kinds == {"f", "i", "u", "a"}

Vals(k) ==
    CASE k = "f" -> {1, 2, NaN}
      [] k = "i" -> (0 - Half) .. (Half - 1)
      [] k = "u" -> 0 .. (Mod - 1)
      [] OTHER   -> {1, 2}

(* delta as a rational n/d: 0, 1/2, 2 *)
Deltas == {[n |-> 0, d |-> 1], [n |-> 1, d |-> 2], [n |-> 2, d |-> 1]}

DeltaLeq(x, y) == x.n * y.d <= y.n * x.d

--------------------------------------------------------------------------
(* numpy element arithmetic *)

Wrap(k, x) ==
    CASE k = "i" -> ((x + Half) % Mod) - Half
      [] k = "u" -> x % Mod
      [] OTHER   -> x

\* num2 - num1, element by element, in the arrays' own dtype
Subtract(k, b, a) == IF a = NaN \/ b = NaN THEN NaN ELSE Wrap(k, b - a)

\* num.absolute, in the argument's dtype
Absolute(k, x) == IF x = NaN THEN NaN ELSE Wrap(k, IF x < 0 THEN 0 - x ELSE x)

\* x / delta as a float: the numerator over the denominator delta.n
Divide(x, dl) == IF x = NaN THEN NaN ELSE x * dl.d

\* num.greater(diff, m) with diff a quotient by delta and m in the arrays' dtype
Greater(q, m, dl) == q # NaN /\ m # NaN /\ q > m * dl.n

\* a.__ne__(b): NaN differs from everything, itself included
NotEqual(a, b) == a # b \/ a = NaN

--------------------------------------------------------------------------
(* numpy array helpers; positions and coordinates are zero-based *)

RECURSIVE Product(_)
Product(s) == IF s = <<>> THEN 1 ELSE Head(s) * Product(Tail(s))

\* the coordinate on axis k (1-based axis number) of flat position p
Coord(p, shp, k) == (p \div Product(SubSeq(shp, k + 1, Len(shp)))) % shp[k]

RECURSIVE Compress(_, _)
\* num.compress(cond, a) over flat sequences: the elements of a where cond holds
Compress(cond, a) ==
    IF a = <<>> \/ cond = <<>> THEN <<>>
    ELSE (IF Head(cond) THEN <<Head(a)>> ELSE <<>>) \o Compress(Tail(cond), Tail(a))

\* the flat positions where the mask holds, ascending
FlatNonzero(mask) == Compress(mask, [p \in 1..Len(mask) |-> p - 1])

\* num.nonzero(mask) of an array of the given shape: per axis, the coordinates
Nonzero(mask, shp) ==
    LET flat == FlatNonzero(mask)
    IN  [k \in 1..Len(shp) |-> [j \in 1..Len(flat) |-> Coord(flat[j], shp, k)]]

--------------------------------------------------------------------------
(* diff_num *)

\* the dtype of num2-num1: the operands' own, or float when they are mixed
Join(k1, k2) == IF k1 = k2 THEN k1 ELSE "f"

\* lines 343-344: text arrays are compared exactly
EffDelta(k1, dl) == IF k1 = "a" THEN [n |-> 0, d |-> 1] ELSE dl

\* line 348: diff = num1.__ne__(num2)
NeMask(a1, a2) == [p \in 1..Len(a1) |-> NotEqual(a1[p], a2[p])]

\* line 350: diff = num.absolute(num2-num1)/delta
DiffArray(k1, k2, a1, a2, dl) ==
    [p \in 1..Len(a1) |->
        Divide(Absolute(Join(k1, k2), Subtract(Join(k1, k2), a2[p], a1[p])), dl)]

\* diff.__ne__(0.0), also the truth value nonzero() gives each element
CandMask(diff) == [p \in 1..Len(diff) |-> diff[p] # 0]

\* lines 365-374: the compress branch
SparseBranch(k1, k2, a1, a2, shp, dl) ==
    LET diff  == DiffArray(k1, k2, a1, a2, dl)
        idx   == Nonzero(CandMask(diff), shp)
        cram1 == Compress(CandMask(diff), a1)
        cram2 == Compress(CandMask(diff), a2)
        cramd == Compress(CandMask(diff), diff)
        r     == [j \in 1..Len(cramd) |->
                    \/ Greater(cramd[j], Absolute(k1, cram1[j]), dl)
                    \/ Greater(cramd[j], Absolute(k2, cram2[j]), dl)]
    IN  [ax \in 1..Len(idx) |-> Compress(r, idx[ax])]

\* lines 378-381: the full-array branch
DenseBranch(k1, k2, a1, a2, shp, dl) ==
    LET diff == DiffArray(k1, k2, a1, a2, dl)
        r    == [p \in 1..Len(diff) |->
                    \/ Greater(diff[p], Absolute(k1, a1[p]), dl)
                    \/ Greater(diff[p], Absolute(k2, a2[p]), dl)]
    IN  Nonzero(r, shp)

\* line 355: n_nonzero
NNonzero(k1, k2, a1, a2, dl) ==
    Len(FlatNonzero(CandMask(DiffArray(k1, k2, a1, a2, dl))))

\* which return statement diff_num leaves by
Branch(k1, k2, a1, a2, dl) ==
    LET d == EffDelta(k1, dl)
    IN  IF d.n = 0 THEN "exact"
        ELSE IF NNonzero(k1, k2, a1, a2, d) = 0 THEN "none"
        ELSE IF NNonzero(k1, k2, a1, a2, d) < Len(a1) \div 3 THEN "sparse"
        ELSE "dense"

DiffNum(k1, k2, a1, a2, shp, dl) ==
    LET d  == EffDelta(k1, dl)
        br == Branch(k1, k2, a1, a2, dl)
    IN  CASE br = "exact"  -> Nonzero(NeMask(a1, a2), shp)
          [] br = "none"   -> Nonzero(CandMask(DiffArray(k1, k2, a1, a2, d)), shp)
          [] br = "sparse" -> SparseBranch(k1, k2, a1, a2, shp, d)
          [] OTHER         -> DenseBranch(k1, k2, a1, a2, shp, d)

--------------------------------------------------------------------------
(* The inputs of one diff_num call *)

SeqsUpTo(S, n) == UNION {[1..m -> S] : m \in 0..n}

\* pairs of equal-length arrays: a free prefix, then one equal pair repeated
ArrayPairs(k) ==
    {<< [p \in 1..(Len(f) + c) |-> IF p <= Len(f) THEN f[p][1] ELSE v],
        [p \in 1..(Len(f) + c) |-> IF p <= Len(f) THEN f[p][2] ELSE v] >> :
        f \in SeqsUpTo(Vals(k) \X Vals(k), MaxFree),
        v \in Vals(k), c \in 0..(MaxLen - MaxFree)}

\* the shapes an array of n elements is given: 1-D, and 2-D with rows of 3
Shapes(n) == {<<n>>} \cup (IF n > 0 /\ n % 3 = 0 THEN {<<n \div 3, 3>>} ELSE {})

\* an array read back to front: the free elements come last
BackToFront(q) == [j \in 1..Len(q) |-> q[Len(q) + 1 - j]]

InitNum ==
    /\ npc = "call"
    /\ kind \in Kinds
    /\ \E ab \in ArrayPairs(kind), back \in BOOLEAN :
          /\ Len(ab[1]) > 0
          /\ num1 = IF back THEN BackToFront(ab[1]) ELSE ab[1]
          /\ num2 = IF back THEN BackToFront(ab[2]) ELSE ab[2]
    /\ shape \in Shapes(Len(num1))
    /\ ndelta \in Deltas
    /\ found = <<>>
    /\ rep = <<>>
    /\ RunIdle
    /\ ObjIdle

\* lines 347-348, 358-359: delta is zero, the inequality mask decides
DiffNumExact ==
    /\ npc = "call"
    /\ Branch(kind, kind, num1, num2, ndelta) = "exact"
    /\ found' = DiffNum(kind, kind, num1, num2, shape, ndelta)
    /\ npc' = "exact"
    /\ UNCHANGED <<kind, shape, num1, num2, ndelta, rep>>
    /\ UNCHANGED <<runvars, objvars>>

\* lines 358-359: no candidate at all
DiffNumNone ==
    /\ npc = "call"
    /\ Branch(kind, kind, num1, num2, ndelta) = "none"
    /\ found' = DiffNum(kind, kind, num1, num2, shape, ndelta)
    /\ npc' = "none"
    /\ UNCHANGED <<kind, shape, num1, num2, ndelta, rep>>
    /\ UNCHANGED <<runvars, objvars>>

\* lines 364-374
DiffNumSparse ==
    /\ npc = "call"
    /\ Branch(kind, kind, num1, num2, ndelta) = "sparse"
    /\ found' = DiffNum(kind, kind, num1, num2, shape, ndelta)
    /\ npc' = "sparse"
    /\ UNCHANGED <<kind, shape, num1, num2, ndelta, rep>>
    /\ UNCHANGED <<runvars, objvars>>

\* lines 377-381
DiffNumDense ==
    /\ npc = "call"
    /\ Branch(kind, kind, num1, num2, ndelta) = "dense"
    /\ found' = DiffNum(kind, kind, num1, num2, shape, ndelta)
    /\ npc' = "dense"
    /\ UNCHANGED <<kind, shape, num1, num2, ndelta, rep>>
    /\ UNCHANGED <<runvars, objvars>>

(* compare_img's report of the returned tuple, lines 508-527 *)

\* width of the int16 index and base1 arrays of lines 511-513, scaled down
IdxBits == 3

\* an integer stored in an int16 array element
IdxWrap(x) == ((x + 2 ^ (IdxBits - 1)) % 2 ^ IdxBits) - 2 ^ (IdxBits - 1)

\* line 518: index[i] = int(found[i][p])
IndexOf(fnd, p) == [k \in 1..Len(fnd) |-> IdxWrap(fnd[k][p])]

\* line 522: loc = index[-1::-1] + base1, an int16 sum
ImgLoc(ix) == [k \in 1..Len(ix) |-> IdxWrap(ix[Len(ix) + 1 - k] + 1)]

RECURSIVE FlatAt(_, _)
\* the flat position of data[index_]; a negative index counts from the end
FlatAt(shp, ix) ==
    IF shp = <<>> THEN 0
    ELSE LET n == Len(shp)
             j == IF ix[n] < 0 THEN ix[n] + shp[n] ELSE ix[n]
         IN  FlatAt(SubSeq(shp, 1, n - 1), SubSeq(ix, 1, n - 1)) * shp[n] + j

\* lines 508-524: one line per printed discrepancy, with its location and the
\* two elements data[index_]
ImgReport(fnd, a1, a2, shp, maxdiff) ==
    LET ndiff  == Len(fnd[1])
        nprint == IF maxdiff < ndiff THEN maxdiff ELSE ndiff
    IN  [p \in 1..nprint |->
            LET ix == IndexOf(fnd, p)
            IN  [loc |-> ImgLoc(ix),
                 v1  |-> a1[FlatAt(shp, ix) + 1],
                 v2  |-> a2[FlatAt(shp, ix) + 1]]]

\* lines 508-524 on the tuple diff_num returned, for a print budget maxdiff
ReportImg ==
    /\ npc \in {"exact", "none", "sparse", "dense"}
    /\ \E maxdiff \in {0, 1, MaxLen} : rep' = ImgReport(found, num1, num2, shape, maxdiff)
    /\ npc' = "reported"
    /\ UNCHANGED <<kind, shape, num1, num2, ndelta, found>>
    /\ UNCHANGED <<runvars, objvars>>

NextNum == DiffNumExact \/ DiffNumNone \/ DiffNumSparse \/ DiffNumDense \/ ReportImg


Returned == npc # "call"

\* the coordinate tuple as a set of flat-equivalent coordinate vectors
CoordSet(t) ==
    IF Len(t) = 0 THEN {}
    ELSE {[k \in 1..Len(t) |-> t[k][j]] : j \in 1..Len(t[1])}

--------------------------------------------------------------------------
(* Header values, cards and units of a file, as the file model yields them *)

MaxUnits == 2   \* units of a file
MaxDup   == 2   \* cards carrying the free keyword in one header
MaxCols  == 2   \* columns of a table
MaxRows  == 2   \* rows of a table, pixels of an image axis

\* a header value: a float, an integer or a string
FltV(x) == [t |-> "f", n |-> x, s |-> ""]
IntV(x) == [t |-> "i", n |-> x, s |-> ""]
StrV(x) == [t |-> "s", n |-> 0, s |-> x]
NoV     == StrV("")

Card(k, v, c) == [key |-> k, value |-> v, comment |-> c]

\* every keyword of the model, in the order keys.sort() gives
KeyOrder ==
    <<"", "BITPIX", "K", "NAXIS", "NAXIS1", "NAXIS2", "SIMPLE", "TFIELDS",
      "TFORM1", "TFORM2", "TFORM3", "XTENSION">>

NAxisKey(k) == <<"NAXIS1", "NAXIS2">>[k]
TFormKey(k) == <<"TFORM1", "TFORM2", "TFORM3">>[k]

\* column formats: J 32-bit integer, E 32-bit float, D 64-bit float
TForms == {"J", "E", "D"}
TWidth(f) == IF f = "D" THEN 8 ELSE 4
TKind(f)  == IF f = "J" THEN "i" ELSE "f"

\* column names by position, as data.names gives them
ColNames == <<"a", "B", "c">>

\* str.upper() on the strings of the model
Upper(x) == CASE x = "a" -> "A" [] x = "c" -> "C" [] x = "k" -> "K" [] OTHER -> x

\* str.rstrip() on the strings of the model
RStrip(x) == CASE x = "x " -> "x" [] OTHER -> x

RECURSIVE SumSeq(_)
SumSeq(q) == IF q = <<>> THEN 0 ELSE Head(q) + SumSeq(Tail(q))

\* the cards of the free keyword K a header may carry
FreeCards ==
    {Card("K", FltV(1), "c"), Card("K", FltV(2), "c"), Card("K", FltV(1), "d")}

\* the cards with a blank keyword field a header may carry: their keyword is
\* the empty string and their value is the text of the card
BlankCards == {Card("", StrV("x"), ""), Card("", StrV("y"), "")}

\* the free cards of a header: K cards, or one blank card
CardLists == SeqsUpTo(FreeCards, MaxDup) \cup {<<c>> : c \in BlankCards}

ImageUnits ==
    {[xt |-> "IMAGE", bitpix |-> b, dims |-> d, tforms |-> <<>>, cards |-> c] :
        b \in {16, 0 - 32},
        d \in {<<>>} \cup {<<r>> : r \in 1..MaxRows},
        c \in CardLists}

TableUnits ==
    {[xt |-> "BINTABLE", bitpix |-> 8,
      dims |-> <<SumSeq([k \in 1..Len(f) |-> TWidth(f[k])]), MaxRows>>,
      tforms |-> f, cards |-> c] :
        f \in SeqsUpTo(TForms, MaxCols) \ {<<>>},
        c \in CardLists}

\* the header of unit u at position pos of its file: the mandatory cards,
\* then the free ones
Header(u, pos) ==
    (IF pos = 0 THEN <<Card("SIMPLE", IntV(1), "")>>
               ELSE <<Card("XTENSION", StrV(u.xt), "")>>)
    \o <<Card("BITPIX", IntV(u.bitpix), ""), Card("NAXIS", IntV(Len(u.dims)), "")>>
    \o [k \in 1..Len(u.dims) |-> Card(NAxisKey(k), IntV(u.dims[k]), "")]
    \o (IF u.xt = "BINTABLE"
        THEN <<Card("TFIELDS", IntV(Len(u.tforms)), "")>>
             \o [k \in 1..Len(u.tforms) |-> Card(TFormKey(k), StrV(u.tforms[k]), "")]
        ELSE <<>>)
    \o u.cards

\* header['KEY'] on a header: the value of the first card carrying the key
HeaderValue(h, k) ==
    h[CHOOSE j \in 1..Len(h) : h[j].key = k /\ \A m \in 1..(j - 1) : h[m].key # k].value

--------------------------------------------------------------------------
(* keyword_dict *)

\* CardList.__getitem__(key): the first card carrying the keyword
FirstCardLookup(h, k) ==
    h[CHOOSE j \in 1..Len(h) : h[j].key = k /\ \A m \in 1..(j - 1) : h[m].key # k]

CardLookup(h, k) == FirstCardLookup(h, k)

\* lines 165-166
Blanked(v, neglect) == IF v.t = "s" /\ neglect THEN StrV(RStrip(v.s)) ELSE v

\* CardList.keys(): the keyword of every card, duplicates included
CardKeys(h) == [j \in 1..Len(h) |-> h[j].key]

\* lines 154-178: the value dictionary; one list entry per card, each entry
\* read by looking the card's keyword up in the header
DictValue(h, neglect) ==
    [k \in {h[j].key : j \in 1..Len(h)} |->
        LET occ == SelectSeq(CardKeys(h), LAMBDA x : x = k)
        IN  [m \in 1..Len(occ) |-> Blanked(CardLookup(h, occ[m]).value, neglect)]]

\* lines 154-178: the comment dictionary
DictComment(h) ==
    [k \in {h[j].key : j \in 1..Len(h)} |->
        LET occ == SelectSeq(CardKeys(h), LAMBDA x : x = k)
        IN  [m \in 1..Len(occ) |-> CardLookup(h, occ[m]).comment]]

\* keys = dict.keys(); keys.sort()
SortedKeys(d) == SelectSeq(KeyOrder, LAMBDA k : k \in DOMAIN d)

--------------------------------------------------------------------------
(* Report lines.  clr tells that the print statement comes with nodiff = 0. *)

Line(kd, kw, n, a, b, clr) ==
    [kind |-> kd, kw |-> kw, n |-> n, a |-> a, b |-> b, loc |-> <<>>, clr |-> clr]

RECURSIVE Flatten(_)
Flatten(qq) == IF qq = <<>> THEN <<>> ELSE Head(qq) \o Flatten(Tail(qq))

\* a detector that sets the flag from its own findings alone
ClearedPerDetector(flag, lines) ==
    IF \E j \in 1..Len(lines) : lines[j].clr THEN 0 ELSE 1

\* the flag after a detector that printed these lines
Cleared(flag, lines) == IF \E j \in 1..Len(lines) : lines[j].clr THEN 0 ELSE flag

--------------------------------------------------------------------------
(* extra_keywords, lines 181-214 *)

\* only the first loop: the keywords of dict2 are not walked
ExtraKeywordsFirstOnly(d1, d2) ==
    LET k1 == SortedKeys(d1)
    IN  Flatten([j \in 1..Len(k1) |->
            IF k1[j] \notin DOMAIN d2
            THEN <<Line("extra1", k1[j], 0, NoV, NoV, TRUE)>>
            ELSE IF Len(d1[k1[j]]) # Len(d2[k1[j]])
                 THEN <<Line("count", k1[j], 0, IntV(Len(d1[k1[j]])),
                             IntV(Len(d2[k1[j]])), TRUE)>>
                 ELSE <<>>])

ExtraKeywords(d1, d2) ==
    LET k1 == SortedKeys(d1)
        k2 == SortedKeys(d2)
    IN  Flatten([j \in 1..Len(k1) |->
            IF k1[j] \notin DOMAIN d2
            THEN <<Line("extra1", k1[j], 0, NoV, NoV, TRUE)>>
            ELSE IF Len(d1[k1[j]]) # Len(d2[k1[j]])
                 THEN <<Line("count", k1[j], 0, IntV(Len(d1[k1[j]])),
                             IntV(Len(d2[k1[j]])), TRUE)>>
                 ELSE <<>>])
        \o
        Flatten([j \in 1..Len(k2) |->
            IF k2[j] \notin DOMAIN d1
            THEN <<Line("extra2", k2[j], 0, NoV, NoV, TRUE)>>
            ELSE <<>>])

--------------------------------------------------------------------------
(* diff_obj, lines 312-327 *)

Abs(x) == IF x < 0 THEN 0 - x ELSE x

\* both tolerance tests required instead of either
DiffObjBoth(o1, o2, dl) ==
    IF o1.t = "f" /\ o2.t = "f"
    THEN /\ Abs(o2.n - o1.n) * dl.d > Abs(o1.n * dl.n)
         /\ Abs(o2.n - o1.n) * dl.d > Abs(o2.n * dl.n)
    ELSE IF o1.t = "s" \/ o2.t = "s" THEN o1 # o2 ELSE o1.n # o2.n

DiffObj(o1, o2, dl) ==
    IF o1.t = "f" /\ o2.t = "f"
    THEN \/ Abs(o2.n - o1.n) * dl.d > Abs(o1.n * dl.n)
         \/ Abs(o2.n - o1.n) * dl.d > Abs(o2.n * dl.n)
    ELSE IF o1.t = "s" \/ o2.t = "s" THEN o1 # o2 ELSE o1.n # o2.n

Min(x, y) == IF x < y THEN x ELSE y
Max(x, y) == IF x > y THEN x ELSE y

\* The values a diff_obj call is given.  Numbers are written in hundredths:
\* FltV(10000) is 100.0, FltV(10005) is 100.05 and IntV(10000) is 100; the
\* rule of lines 320-325 does not depend on the unit.
ObjVals ==
    {FltV(x) : x \in {0, 100, 200, 0 - 200, 10000, 10005}}
    \cup {IntV(x) : x \in {100, 200, 10000}}
    \cup {StrV("x"), StrV("x ")}

\* delta: 0, 0.0001, 0.001, 0.5, 2
ObjDeltas ==
    {[n |-> 0, d |-> 1], [n |-> 1, d |-> 10000], [n |-> 1, d |-> 1000],
     [n |-> 1, d |-> 2], [n |-> 2, d |-> 1]}

InitObj ==
    /\ opc = "call"
    /\ obj1 \in ObjVals
    /\ obj2 \in ObjVals
    /\ odelta \in ObjDeltas
    /\ odiff = FALSE
    /\ RunIdle
    /\ NumIdle

\* lines 320-325: two floats
DiffObjFloats ==
    /\ opc = "call"
    /\ obj1.t = "f" /\ obj2.t = "f"
    /\ odiff' = DiffObj(obj1, obj2, odelta)
    /\ opc' = "floats"
    /\ UNCHANGED <<obj1, obj2, odelta>>
    /\ UNCHANGED <<numvars, runvars>>

\* lines 326-327: anything else
DiffObjOther ==
    /\ opc = "call"
    /\ ~(obj1.t = "f" /\ obj2.t = "f")
    /\ odiff' = DiffObj(obj1, obj2, odelta)
    /\ opc' = "other"
    /\ UNCHANGED <<obj1, obj2, odelta>>
    /\ UNCHANGED <<numvars, runvars>>

NextObj == DiffObjFloats \/ DiffObjOther

\* diff_obj on its own: one call on values drawn from the bounded sets
SpecObj == InitObj /\ [][NextObj]_vars

--------------------------------------------------------------------------
(* compare_keyword_value, lines 241-274 *)

InList(x, lst) == \E j \in 1..Len(lst) : lst[j] = x

CompareKeywordValue(d1, d2, skip, dl) ==
    LET keys == SortedKeys(d1)
    IN  Flatten([j \in 1..Len(keys) |->
            IF keys[j] \in DOMAIN d2 /\ ~InList(keys[j], skip)
            THEN LET v1 == d1[keys[j]]
                     v2 == d2[keys[j]]
                 IN  Flatten([m \in 1..Min(Len(v1), Len(v2)) |->
                        IF DiffObj(v1[m], v2[m], dl)
                        THEN <<Line("value", keys[j], m, v1[m], v2[m], TRUE)>>
                        ELSE <<>>])
            ELSE <<>>])

(* compare_keyword_comment, lines 277-309 *)

CompareKeywordComment(d1, d2, skip) ==
    LET keys == SortedKeys(d1)
    IN  Flatten([j \in 1..Len(keys) |->
            IF keys[j] \in DOMAIN d2 /\ ~InList(keys[j], skip)
            THEN LET c1 == d1[keys[j]]
                     c2 == d2[keys[j]]
                 IN  Flatten([m \in 1..Min(Len(c1), Len(c2)) |->
                        IF c1[m] # c2[m]
                        THEN <<Line("comment", keys[j], m, StrV(c1[m]), StrV(c2[m]), TRUE)>>
                        ELSE <<>>])
            ELSE <<>>])

--------------------------------------------------------------------------
(* compare_dim, lines 384-419 *)

\* only the NAXIS values compared
CompareDimNaxisOnly(h1, h2) ==
    LET n1 == HeaderValue(h1, "NAXIS").n
        n2 == HeaderValue(h2, "NAXIS").n
    IN  IF n1 # n2 \/ n1 = 0 THEN <<>>
        ELSE <<n1>> \o [k \in 1..n1 |-> HeaderValue(h1, NAxisKey(k)).n]

\* the returned dimension list [NAXIS, NAXIS1, ...], or <<>> for None
CompareDimResult(h1, h2) ==
    LET n1 == HeaderValue(h1, "NAXIS").n
        n2 == HeaderValue(h2, "NAXIS").n
        dim1 == <<n1>> \o [k \in 1..n1 |-> HeaderValue(h1, NAxisKey(k)).n]
        dim2 == <<n2>> \o [k \in 1..n1 |-> HeaderValue(h2, NAxisKey(k)).n]
    IN  IF n1 # n2 \/ n1 = 0 THEN <<>>
        ELSE IF dim1 # dim2 THEN <<>> ELSE dim1

CompareDimLines(h1, h2) ==
    LET n1 == HeaderValue(h1, "NAXIS").n
        n2 == HeaderValue(h2, "NAXIS").n
    IN  IF n1 # n2 THEN <<Line("dims", "", 0, NoV, NoV, TRUE)>>
        ELSE IF n1 = 0 THEN <<Line("naught", "", 0, NoV, NoV, FALSE)>>
        ELSE IF CompareDimResult(h1, h2) = <<>>
             THEN <<Line("dims", "", 0, NoV, NoV, TRUE)>>
             ELSE <<>>

--------------------------------------------------------------------------
(* list_parse, lines 102-127.  An exclusion specification is either inline  *)
(* text, given by its comma-separated fields, or '@path', given by whether  *)
(* the file can be read and by its whitespace-separated words.              *)

Inline(fields)   == [ref |-> FALSE, ok |-> TRUE, words |-> fields]
FileRef(ok, wds) == [ref |-> TRUE, ok |-> ok, words |-> wds]

ListParse(x) ==
    IF x.ref
    THEN IF x.ok
         THEN IF x.words = <<>> THEN <<"">>
              ELSE [j \in 1..Len(x.words) |-> Upper(x.words[j])]
         ELSE <<"">>
    ELSE [j \in 1..Len(x.words) |-> Upper(x.words[j])]

\* the specifications a run is given: '', '*', 'k', '@missing', '@blank', '@star'
ExclSpecs ==
    {Inline(<<"">>), Inline(<<"*">>), Inline(<<"k">>),
     FileRef(FALSE, <<>>), FileRef(TRUE, <<>>), FileRef(TRUE, <<"*">>)}

FieldSpecs ==
    {Inline(<<"">>), Inline(<<"*">>), Inline(<<"a">>)}

\* the default of maxdiff (line 9)
DefaultMaxDiff == 10

MaxDiffs == {0 - 1, 0, 1, 2, DefaultMaxDiff}

NoExcl == Inline(<<"">>)
Zero   == [n |-> 0, d |-> 1]

\* the delta of a run: 0 (the default) or 2
RunDeltas == {Zero, [n |-> 2, d |-> 1]}

\* the arguments of a run: at most one of them differs from its default, or
\* value_excl_list is '*' and delta is 2
ArgSets ==
    {a \in [vx : ExclSpecs, cx : ExclSpecs, fx : FieldSpecs,
            maxdiff : MaxDiffs, delta : RunDeltas] :
        Cardinality({f \in {"vx", "cx", "fx", "maxdiff", "delta"} :
            a[f] # (CASE f = "maxdiff" -> DefaultMaxDiff
                      [] f = "delta" -> Zero
                      [] OTHER -> NoExcl)}) <= 1}
    \cup {[vx |-> Inline(<<"*">>), cx |-> NoExcl, fx |-> NoExcl,
            maxdiff |-> DefaultMaxDiff, delta |-> [n |-> 2, d |-> 1]]}

Star == <<"*">>

--------------------------------------------------------------------------
(* The file model: the units a file holds at each position *)

UnitsAt(k) == IF k = 0 THEN ImageUnits ELSE ImageUnits \cup TableUnits

\* a unit that declares no payload
Plain(u) == u.dims = <<>> /\ u.bitpix = 16

\* the pairs of units two files hold at position k: free cards occur only in
\* pairs of units without payload
UnitPairsAt(k) ==
    {p \in UnitsAt(k) \X UnitsAt(k) :
        \/ p[1].cards = <<>> /\ p[2].cards = <<>>
        \/ Plain(p[1]) /\ Plain(p[2])}

\* a unit without its free cards
Mandatory(u) == [u EXCEPT !.cards = <<>>]

NoDicts == [value1 |-> <<>>, value2 |-> <<>>, comment1 |-> <<>>, comment2 |-> <<>>]

NoUnit == [xt |-> "", bitpix |-> 0, dims |-> <<>>, tforms |-> <<>>, cards |-> <<>>]
NoTbl  == [col |-> 0, ndiff |-> 0, maxdiff |-> 0, none1 |-> FALSE, none2 |-> FALSE]
NoImg  == [k1 |-> "", k2 |-> "", d1 |-> <<>>, d2 |-> <<>>, thresh |-> Zero,
           found |-> <<>>]
Closed == [h |-> "closed", n |-> 0]

Init ==
    /\ pc = "call"
    /\ opts = [vx |-> <<>>, cx |-> <<>>, fx |-> <<>>, maxdiff |-> 0, delta |-> Zero]
    /\ same = FALSE
    /\ im1 = [h |-> "none", n |-> 0]
    /\ im2 = [h |-> "none", n |-> 0]
    /\ i = 0
    /\ u1 = NoUnit
    /\ u2 = NoUnit
    /\ dicts = NoDicts
    /\ nodiff = 0
    /\ dim = <<>>
    /\ tbl = NoTbl
    /\ img = NoImg
    /\ rev = [nodiff |-> 0, ndiff |-> 0]
    /\ out = <<>>
    /\ colDiffs = <<>>
    /\ exc = ""
    /\ ret = 0 - 1
    /\ final = FALSE
    /\ NumIdle
    /\ ObjIdle

\* raise: the run ends without closing anything and without a verdict
Raise(e) ==
    /\ pc' = "raised"
    /\ exc' = e

\* lines 9-38: parse the lists, print the banner, set the flag
Start ==
    /\ pc = "call"
    /\ \E a \in ArgSets :
          opts' = [vx |-> ListParse(a.vx), cx |-> ListParse(a.cx),
                   fx |-> ListParse(a.fx), maxdiff |-> a.maxdiff, delta |-> a.delta]
    /\ same' \in BOOLEAN
    /\ nodiff' = 1
    /\ pc' = "open1"
    /\ rev' = [nodiff |-> 1, ndiff |-> 0]
    /\ UNCHANGED <<img, dicts, im1, im2, i, u1, u2, dim, tbl, out, colDiffs, exc, ret, final>>
    /\ UNCHANGED <<numvars, objvars>>

\* line 41, open_and_read lines 130-137
Open1 ==
    /\ pc = "open1"
    /\ \/ /\ \E n \in 1..MaxUnits : im1' = [h |-> "open", n |-> n]
          /\ pc' = "open2"
          /\ exc' = exc
       \/ /\ Raise("IOError")
          /\ im1' = im1
    /\ UNCHANGED <<rev, img, dicts, opts, same, im2, i, u1, u2, nodiff, dim, tbl, out, colDiffs, ret, final>>
    /\ UNCHANGED <<numvars, objvars>>

\* line 42
Open2 ==
    /\ pc = "open2"
    /\ \/ /\ \E n \in 1..MaxUnits :
                /\ same => n = im1.n
                /\ im2' = [h |-> "open", n |-> n]
          /\ pc' = "count"
          /\ exc' = exc
       \/ /\ ~same
          /\ Raise("IOError")
          /\ im2' = im2
    /\ UNCHANGED <<rev, img, dicts, opts, same, im1, i, u1, u2, nodiff, dim, tbl, out, colDiffs, ret, final>>
    /\ UNCHANGED <<numvars, objvars>>

\* the unit counts are not compared: the loop runs over the first file's units
CheckCountSkipped ==
    /\ pc = "count"
    /\ pc' = "unit"
    /\ UNCHANGED <<rev, img, dicts, opts, same, im1, im2, i, u1, u2, nodiff, dim, tbl, out, colDiffs,
                   exc, ret, final>>
    /\ UNCHANGED <<numvars, objvars>>

\* lines 45-47
CheckCount ==
    /\ pc = "count"
    /\ IF im1.n # im2.n
       THEN Raise("RuntimeError")
       ELSE pc' = "unit" /\ exc' = exc
    /\ UNCHANGED <<rev, img, dicts, opts, same, im1, im2, i, u1, u2, nodiff, dim, tbl, out, colDiffs,
                   ret, final>>
    /\ UNCHANGED <<numvars, objvars>>

\* lines 50-65: the next pair of units, their dictionaries, extra_keywords
BeginUnit ==
    /\ pc = "unit"
    /\ i < im1.n
    /\ \E p \in UnitPairsAt(i) :
          /\ same => p[1] = p[2]
          /\ u1' = p[1]
          /\ u2' = p[2]
          /\ dicts' = [value1   |-> DictValue(Header(p[1], i), TRUE),
                       value2   |-> DictValue(Header(p[2], i), TRUE),
                       comment1 |-> DictComment(Header(p[1], i)),
                       comment2 |-> DictComment(Header(p[2], i))]
    /\ LET lines == ExtraKeywords(dicts'.value1, dicts'.value2)
       IN  /\ out' = lines
           /\ nodiff' = Cleared(nodiff, lines)
    /\ pc' = "value"
    /\ rev' = [rev EXCEPT !.nodiff =
                  Cleared(@, ExtraKeywords(dicts'.value2, dicts'.value1))]
    /\ UNCHANGED <<img, opts, same, im1, im2, i, dim, tbl, colDiffs, exc, ret, final>>
    /\ UNCHANGED <<numvars, objvars>>

\* compare_keyword_value called whatever the exclusion list
CompareValueAlways ==
    /\ pc = "value"
    /\ LET lines == CompareKeywordValue(dicts.value1, dicts.value2,
                                        opts.vx, opts.delta)
       IN  /\ out' = out \o lines
           /\ nodiff' = Cleared(nodiff, lines)
    /\ pc' = "comment"
    /\ rev' = [rev EXCEPT !.nodiff =
                  Cleared(@, CompareKeywordValue(dicts.value2, dicts.value1,
                                                 opts.vx, opts.delta))]
    /\ UNCHANGED <<img, opts, same, im1, im2, i, u1, u2, dicts, dim, tbl, colDiffs, exc,
                   ret, final>>
    /\ UNCHANGED <<numvars, objvars>>

\* lines 68-70
CompareValue ==
    /\ pc = "value"
    /\ LET lines == IF opts.vx # Star
                    THEN CompareKeywordValue(dicts.value1, dicts.value2,
                                             opts.vx, opts.delta)
                    ELSE <<>>
       IN  /\ out' = out \o lines
           /\ nodiff' = Cleared(nodiff, lines)
    /\ pc' = "comment"
    /\ rev' = [rev EXCEPT !.nodiff =
                  Cleared(@, IF opts.vx # Star
                             THEN CompareKeywordValue(dicts.value2, dicts.value1,
                                                      opts.vx, opts.delta)
                             ELSE <<>>)]
    /\ UNCHANGED <<img, opts, same, im1, im2, i, u1, u2, dicts, dim, tbl, colDiffs, exc,
                   ret, final>>
    /\ UNCHANGED <<numvars, objvars>>

\* lines 71-73; the dictionaries are not read after them
CompareComment ==
    /\ pc = "comment"
    /\ LET lines == IF opts.cx # Star
                    THEN CompareKeywordComment(dicts.comment1, dicts.comment2, opts.cx)
                    ELSE <<>>
       IN  /\ out' = out \o lines
           /\ nodiff' = Cleared(nodiff, lines)
    /\ dicts' = NoDicts
    /\ u1' = Mandatory(u1)
    /\ u2' = Mandatory(u2)
    /\ pc' = "dim"
    /\ rev' = [rev EXCEPT !.nodiff =
                  Cleared(@, IF opts.cx # Star
                             THEN CompareKeywordComment(dicts.comment2, dicts.comment1,
                                                        opts.cx)
                             ELSE <<>>)]
    /\ UNCHANGED <<img, opts, same, im1, im2, i, dim, tbl, colDiffs, exc, ret, final>>
    /\ UNCHANGED <<numvars, objvars>>

\* line 77
CompareDim ==
    /\ pc = "dim"
    /\ dim' = CompareDimResult(Header(u1, i), Header(u2, i))
    /\ LET lines == CompareDimLines(Header(u1, i), Header(u2, i))
       IN  /\ out' = out \o lines
           /\ nodiff' = Cleared(nodiff, lines)
    /\ pc' = "data"
    /\ rev' = [rev EXCEPT !.nodiff =
                  Cleared(@, CompareDimLines(Header(u2, i), Header(u1, i)))]
    /\ UNCHANGED <<img, dicts, opts, same, im1, im2, i, u1, u2, tbl, colDiffs, exc, ret, final>>
    /\ UNCHANGED <<numvars, objvars>>

\* line 57: the unit's type tag, read from the first file
XTension == IF i = 0 THEN "" ELSE HeaderValue(Header(u1, i), "XTENSION").s

IsTable == XTension \in {"BINTABLE", "TABLE"}

\* the loop body is done for unit i
NextUnit ==
    /\ i' = i
    /\ pc' = "next"

\* line 50: the loop moves on; the unit's locals are dead
Advance ==
    /\ pc = "next"
    /\ i' = i + 1
    /\ pc' = IF i + 1 < im1.n THEN "unit" ELSE "end"
    /\ u1' = NoUnit
    /\ u2' = NoUnit
    /\ dim' = <<>>
    /\ out' = <<>>
    /\ colDiffs' = <<>>
    /\ tbl' = NoTbl
    /\ img' = NoImg
    /\ UNCHANGED <<rev, opts, same, im1, im2, dicts, nodiff, exc, ret, final>>
    /\ UNCHANGED <<numvars, objvars>>

\* lines 80-84: no dimensions to compare, or every column is excluded
SkipData ==
    /\ pc = "data"
    /\ dim = <<>> \/ (IsTable /\ opts.fx = Star)
    /\ NextUnit
    /\ UNCHANGED <<rev, img, dicts, opts, same, im1, im2, u1, u2, nodiff, dim, tbl, out, colDiffs,
                   exc, ret, final>>
    /\ UNCHANGED <<numvars, objvars>>

--------------------------------------------------------------------------
(* The coordinate formatter shared by compare_table and compare_img *)

Reverse(q) == [j \in 1..Len(q) |-> q[Len(q) + 1 - j]]

\* lines 473-479, 518-523: loc = index[-1::-1] + base1 for the p-th discrepancy
Loc(fnd, p) == Reverse([k \in 1..Len(fnd) |-> fnd[k][p] + 1])

\* one printed location line of column c (0 for an image)
LocLine(c, fnd, p) ==
    [Line("loc", "", c, NoV, NoV, FALSE) EXCEPT !.loc = Loc(fnd, p)]

\* the elements of a payload read from a file: integer payloads stay small,
\* float payloads take every value of the kind
PayloadVals(k) == IF k = "i" THEN {0 - 1, 1} ELSE Vals(k)

\* the arrays of n elements of a kind
Arrays(k, n) == [1..n -> PayloadVals(k)]

\* the numpy shape of a payload whose dimension list is [NAXIS, NAXIS1, ...]
DataShape(dm) == Reverse(Tail(dm))

--------------------------------------------------------------------------
(* compare_table, lines 422-490 *)

TFields(u) == HeaderValue(Header(u, i), "TFIELDS").n
TFormAt(u, c) == HeaderValue(Header(u, i), TFormKey(c + 1)).s
NCol == Min(TFields(u1), TFields(u2))

\* lines 432-434
NColLines ==
    IF TFields(u1) # TFields(u2)
    THEN <<Line("ncol", "", 0, IntV(TFields(u1)), IntV(TFields(u2)), TRUE)>>
    ELSE <<>>

\* lines 428-440: both files carry no data, compare_table returns
TableNoData ==
    /\ pc = "data"
    /\ dim # <<>> /\ IsTable /\ opts.fx # Star
    /\ out' = out \o NColLines
    /\ nodiff' = Cleared(nodiff, NColLines)
    /\ tbl' = [NoTbl EXCEPT !.none1 = TRUE, !.none2 = TRUE]
    /\ NextUnit
    /\ rev' = [rev EXCEPT !.nodiff = Cleared(@, NColLines)]
    /\ UNCHANGED <<img, dicts, opts, same, im1, im2, u1, u2, dim, colDiffs, exc, ret, final>>
    /\ UNCHANGED <<numvars, objvars>>

\* lines 428-443: at least one file carries data
CompareTableBegin ==
    /\ pc = "data"
    /\ dim # <<>> /\ IsTable /\ opts.fx # Star
    /\ \E nn1 \in BOOLEAN, nn2 \in BOOLEAN :
          /\ same => nn1 = nn2
          /\ ~(nn1 /\ nn2)
          /\ tbl' = [col |-> 0, ndiff |-> 0, maxdiff |-> Max(0, opts.maxdiff),
                     none1 |-> nn1, none2 |-> nn2]
          /\ LET lines == NColLines \o
                          (IF nn1 \/ nn2
                           THEN <<Line("nodata", "", 0, NoV, NoV, TRUE)>> ELSE <<>>)
             IN  /\ out' = out \o lines
                 /\ nodiff' = Cleared(nodiff, lines)
                 /\ rev' = [rev EXCEPT !.nodiff = Cleared(@, lines)]
    /\ pc' = "col"
    /\ UNCHANGED <<img, dicts, opts, same, im1, im2, i, u1, u2, dim, colDiffs, exc, ret, final>>
    /\ UNCHANGED <<numvars, objvars>>

\* lines 447-451: the formats differ, the column is reported and skipped
TableColumnType ==
    /\ pc = "col"
    /\ tbl.col < NCol
    /\ TFormAt(u1, tbl.col) # TFormAt(u2, tbl.col)
    /\ out' = out \o <<Line("type", "", tbl.col, StrV(TFormAt(u1, tbl.col)),
                            StrV(TFormAt(u2, tbl.col)), FALSE)>>
    /\ tbl' = [tbl EXCEPT !.col = @ + 1]
    /\ UNCHANGED <<rev, img, dicts, opts, same, im1, im2, i, u1, u2, nodiff, dim, colDiffs, pc, exc,
                   ret, final>>
    /\ UNCHANGED <<numvars, objvars>>

\* lines 453-454: data.names of a payload that is None
TableColumnNone ==
    /\ pc = "col"
    /\ tbl.col < NCol
    /\ TFormAt(u1, tbl.col) = TFormAt(u2, tbl.col)
    /\ tbl.none1 \/ tbl.none2
    /\ Raise("AttributeError")
    /\ UNCHANGED <<rev, img, dicts, opts, same, im1, im2, i, u1, u2, nodiff, dim, tbl, out, colDiffs,
                   ret, final>>
    /\ UNCHANGED <<numvars, objvars>>

\* lines 453-455: name1 and name2, both files naming their columns alike
ColExcluded(c) ==
    LET name1 == Upper(ColNames[c + 1])
        name2 == Upper(ColNames[c + 1])
    IN  InList(name1, opts.fx) \/ InList(name2, opts.fx)

\* lines 453-456: the column is excluded by name
TableColumnSkip ==
    /\ pc = "col"
    /\ tbl.col < NCol
    /\ TFormAt(u1, tbl.col) = TFormAt(u2, tbl.col)
    /\ ~(tbl.none1 \/ tbl.none2)
    /\ ColExcluded(tbl.col)
    /\ tbl' = [tbl EXCEPT !.col = @ + 1]
    /\ UNCHANGED <<rev, img, dicts, opts, same, im1, im2, i, u1, u2, nodiff, dim, out, colDiffs, pc,
                   exc, ret, final>>
    /\ UNCHANGED <<numvars, objvars>>

\* lines 462-463: the lines granted to a column and the budget left after it
NPrint(budget, nd) == Min(budget, nd)

\* a budget that every column gets afresh
BudgetKept(budget, nd) == budget

BudgetAfter(budget, nd) == budget - nd

\* lines 458-485: the column's two arrays are compared and reported
TableColumnDiff ==
    /\ pc = "col"
    /\ tbl.col < NCol
    /\ TFormAt(u1, tbl.col) = TFormAt(u2, tbl.col)
    /\ ~(tbl.none1 \/ tbl.none2)
    /\ ~ColExcluded(tbl.col)
    /\ LET k == TKind(TFormAt(u1, tbl.col))
       IN  \E c1 \in Arrays(k, dim[3]), c2 \in Arrays(k, dim[3]) :
              /\ same => c1 = c2
              /\ LET fnd    == DiffNum(k, k, c1, c2, <<dim[3]>>, opts.delta)
                     nd     == Len(fnd[1])
                     nprint == NPrint(tbl.maxdiff, nd)
                 IN  /\ tbl' = [tbl EXCEPT !.col = @ + 1,
                                           !.ndiff = @ + nd,
                                           !.maxdiff = BudgetAfter(@, nd)]
                     /\ rev' = [rev EXCEPT !.ndiff =
                                   @ + Len(DiffNum(k, k, c2, c1, <<dim[3]>>, opts.delta)[1])]
                     /\ colDiffs' = Append(colDiffs, [col |-> tbl.col + 1, nd |-> nd])
                     /\ out' = out \o
                            (IF nprint > 0
                             THEN <<Line("colhdr", "", tbl.col + 1, NoV, NoV, FALSE)>>
                                  \o [p \in 1..nprint |-> LocLine(tbl.col + 1, fnd, p)]
                             ELSE <<>>)
    /\ UNCHANGED <<img, dicts, opts, same, im1, im2, i, u1, u2, nodiff, dim, pc, exc, ret, final>>
    /\ UNCHANGED <<numvars, objvars>>

\* lines 488-490: the unit's count
TableEnd ==
    /\ pc = "col"
    /\ tbl.col >= NCol
    /\ LET lines == <<Line("total", "", tbl.ndiff, NoV, NoV, tbl.ndiff > 0)>>
       IN  /\ out' = out \o lines
           /\ nodiff' = Cleared(nodiff, lines)
    /\ tbl' = NoTbl
    /\ NextUnit
    /\ rev' = [nodiff |-> IF rev.ndiff > 0 THEN 0 ELSE rev.nodiff, ndiff |-> 0]
    /\ UNCHANGED <<img, dicts, opts, same, im1, im2, u1, u2, dim, colDiffs, exc, ret, final>>
    /\ UNCHANGED <<numvars, objvars>>

--------------------------------------------------------------------------
(* compare_img, lines 493-529 *)

\* the element kind of an image payload: integers for BITPIX > 0
ImgKind(u) == IF u.bitpix > 0 THEN "i" ELSE "f"

\* the tolerance kept for integers and dropped for floats
ThreshInverted(u, dl) == IF HeaderValue(Header(u, i), "BITPIX").n > 0 THEN dl ELSE Zero

\* lines 501-503
Thresh(u, dl) == IF HeaderValue(Header(u, i), "BITPIX").n > 0 THEN Zero ELSE dl

CompareImg ==
    /\ pc = "data"
    /\ dim # <<>> /\ ~IsTable
    /\ LET n == Product(Tail(dim))
       IN  \E d1 \in Arrays(ImgKind(u1), n), d2 \in Arrays(ImgKind(u2), n) :
              /\ same => d1 = d2
              /\ LET fnd    == DiffNum(ImgKind(u1), ImgKind(u2), d1, d2,
                                       DataShape(dim), Thresh(u1, opts.delta))
                     nd     == Len(fnd[1])
                     nprint == Min(Max(0, opts.maxdiff), nd)
                     lines  == [p \in 1..nprint |-> LocLine(0, fnd, p)]
                               \o <<Line("total", "", nd, NoV, NoV, nd > 0)>>
                 IN  /\ img' = [k1 |-> ImgKind(u1), k2 |-> ImgKind(u2), d1 |-> d1,
                                 d2 |-> d2, thresh |-> Thresh(u1, opts.delta),
                                 found |-> fnd]
                     /\ rev' = [rev EXCEPT !.nodiff =
                                   IF Len(DiffNum(ImgKind(u2), ImgKind(u1), d2, d1,
                                                  DataShape(dim),
                                                  Thresh(u2, opts.delta))[1]) > 0
                                   THEN 0 ELSE @]
                     /\ colDiffs' = <<[col |-> 0, nd |-> nd]>>
                     /\ out' = out \o lines
                     /\ nodiff' = Cleared(nodiff, lines)
    /\ NextUnit
    /\ UNCHANGED <<dicts, opts, same, im1, im2, u1, u2, dim, tbl, exc, ret, final>>
    /\ UNCHANGED <<numvars, objvars>>

--------------------------------------------------------------------------
\* lines 89-99: the final line, the two close() calls, the verdict
EndRun ==
    /\ pc = "end"
    /\ final' = (nodiff = 1)
    /\ im1' = [im1 EXCEPT !.h = "closed"]
    /\ im2' = [im2 EXCEPT !.h = "closed"]
    /\ ret' = nodiff
    /\ pc' = "done"
    /\ UNCHANGED <<rev, img, dicts, opts, same, i, u1, u2, nodiff, dim, tbl, out, colDiffs, exc>>
    /\ UNCHANGED <<numvars, objvars>>

Next ==
    \/ Start \/ Open1 \/ Open2 \/ CheckCount
    \/ BeginUnit \/ CompareValue \/ CompareComment \/ CompareDim
    \/ SkipData \/ TableNoData \/ CompareTableBegin
    \/ TableColumnType \/ TableColumnNone \/ TableColumnSkip \/ TableColumnDiff
    \/ TableEnd \/ CompareImg \/ Advance \/ EndRun

Spec == Init /\ [][Next]_vars

\* diff_num on its own: one call on arrays drawn from the bounded sets
SpecNum == InitNum /\ [][NextNum]_vars

--------------------------------------------------------------------------
(* Claims about a fitsdiff run, checked under Spec *)

\* C1: the accumulator is monotone within a run. Once the flag has been set
\* to 1 at run start, no step of the run changes it from 0 back to 1, it is not
\* reset between units, and a run that reaches its end with the flag at 0
\* returns a false verdict and prints no final no-difference line.
C1_AccumulatorMonotone ==
    [][/\ (pc # "call" /\ nodiff = 0) => nodiff' = 0
       /\ (pc' = "done" /\ nodiff = 0) => (ret' = 0 /\ ~final')]_vars

\* the second unit is done, it reported nothing that clears the flag, and the
\* flag is still 0 from the first unit
C1_Witness ==
    /\ pc = "next" /\ i = 1 /\ nodiff = 0
    /\ \A j \in 1..Len(out) : ~out[j].clr

\* C2: reflexivity. When both inputs name the same well-formed file, every
\* unit reports zero different data points, and the run returns a true
\* verdict and prints the final no-difference line, whatever the options.
C2_Reflexivity ==
    same =>
        /\ \A j \in 1..Len(out) : out[j].kind = "total" => out[j].n = 0
        /\ pc = "done" => (ret = 1 /\ final)

\* C3: a unit-count mismatch is fatal before any unit is compared. When both
\* files are open with different numbers of units and the count has been
\* checked, the run has raised RuntimeError, no unit has been fetched, no
\* dictionary built, no line reported, the final no-difference line is not
\* printed and nothing is returned.
C3_UnitCountMismatchFatal ==
    (im1.h = "open" /\ im2.h = "open" /\ im1.n # im2.n /\ pc # "count") =>
        /\ pc = "raised" /\ exc = "RuntimeError"
        /\ i = 0 /\ u1 = NoUnit /\ u2 = NoUnit /\ dicts = NoDicts /\ out = <<>>
        /\ nodiff = 1
        /\ ~final /\ ret = 0 - 1

\* the run was aborted on files of different unit counts
C3_Witness == pc = "raised" /\ exc = "RuntimeError" /\ im1.n # im2.n

\* C4: every opened handle is closed when the run ends, on every exit path:
\* no run that has returned or raised leaves a handle open.
C4_HandlesClosed ==
    pc \in {"done", "raised"} => (im1.h # "open" /\ im2.h # "open")

\* C5: print budget of a table unit. With m = max(0, maxdiff) and D the sum of
\* the discrepancies of the compared columns, a table unit whose count line
\* is printed has exactly min(m, D) location lines, the k-th compared column
\* has min(max(0, m - discrepancies of the columns before it), its own
\* discrepancies) of them, the count line reports D, and D > 0 clears the flag.
C5_TableBudget ==
    (pc = "next" /\ IsTable /\ \E j \in 1..Len(out) : out[j].kind = "total") =>
        LET m          == Max(0, opts.maxdiff)
            D          == SumSeq([k \in 1..Len(colDiffs) |-> colDiffs[k].nd])
            Before(k)  == SumSeq([j \in 1..(k - 1) |-> colDiffs[j].nd])
            Printed(c) == Cardinality({j \in 1..Len(out) :
                                          out[j].kind = "loc" /\ out[j].n = c})
        IN  /\ Len(SelectSeq(out, LAMBDA l : l.kind = "loc")) = Min(m, D)
            /\ \A k \in 1..Len(colDiffs) :
                   Printed(colDiffs[k].col) =
                       Min(Max(0, m - Before(k)), colDiffs[k].nd)
            /\ \A j \in 1..Len(out) : out[j].kind = "total" => out[j].n = D
            /\ D > 0 => nodiff = 0

\* a table unit with two compared columns, each with discrepancies, and a
\* budget of one line
C5_Witness ==
    /\ pc = "next" /\ IsTable /\ opts.maxdiff = 1
    /\ Len(colDiffs) = 2 /\ colDiffs[1].nd > 0 /\ colDiffs[2].nd > 0

\* C6: the exclusion sentinel. With the value list '*' the keyword-value step
\* of a unit reports nothing and leaves the flag alone; likewise the
\* keyword-comment step with the comment list '*', and the data step of a
\* table unit with the column list '*'.
C6_ExclusionSentinel ==
    [][/\ (pc = "value" /\ opts.vx = Star) => (out' = out /\ nodiff' = nodiff)
       /\ (pc = "comment" /\ opts.cx = Star) => (out' = out /\ nodiff' = nodiff)
       /\ (pc = "data" /\ IsTable /\ opts.fx = Star) =>
              (out' = out /\ nodiff' = nodiff /\ pc' = "next")]_vars

\* the value step is over with the value list '*', the two dictionaries hold
\* a value mismatch and the flag is still 1
C6_Witness ==
    /\ pc = "comment" /\ opts.vx = Star /\ nodiff = 1
    /\ CompareKeywordValue(dicts.value1, dicts.value2, <<"">>, opts.delta) # <<>>

\* C7: duplicate keywords. The value dictionary maps K to the values of the
\* cards carrying K, in card order; and two headers that each hold K twice,
\* with values [a1, a2] and [b1, b2] where a1 differs from b1 and a2 from b2,
\* get two value reports, K showing (a1, b1) and K[2] showing (a2, b2).
C7_DuplicateKeywords ==
    pc \in {"value", "comment"} =>
        LET k1 == SelectSeq(u1.cards, LAMBDA c : c.key = "K")
            k2 == SelectSeq(u2.cards, LAMBDA c : c.key = "K")
        IN  /\ k1 # <<>> =>
                   dicts.value1["K"] = [m \in 1..Len(k1) |-> Blanked(k1[m].value, TRUE)]
            /\ k2 # <<>> =>
                   dicts.value2["K"] = [m \in 1..Len(k2) |-> Blanked(k2[m].value, TRUE)]
            /\ ( /\ pc = "comment" /\ opts.vx = <<"">>
                 /\ Len(k1) = 2 /\ Len(k2) = 2
                 /\ DiffObj(k1[1].value, k2[1].value, opts.delta)
                 /\ DiffObj(k1[2].value, k2[2].value, opts.delta) ) =>
                   \A m \in 1..2 :
                       \E j \in 1..Len(out) :
                           out[j] = Line("value", "K", m, k1[m].value, k2[m].value, TRUE)

--------------------------------------------------------------------------
(* Claims about diff_num, checked under SpecNum *)

\* C8: sparse/dense equivalence of diff_num. Whenever a call with delta > 0
\* returns through the compress branch or through the full-array branch, the
\* coordinate tuple it returns equals, element for element and in the same
\* order, the tuple the other branch computes on the same arrays.
C8_SparseDenseEquivalence ==
    /\ npc = "sparse" => found = DenseBranch(kind, kind, num1, num2, shape, ndelta)
    /\ npc = "dense"  => found = SparseBranch(kind, kind, num1, num2, shape, ndelta)

\* C9: tolerance monotonicity of diff_num. The coordinates returned with the
\* call's delta are among those returned with any smaller delta d >= 0 on the
\* same arrays, and with delta = 0 they are exactly the positions whose two
\* elements are unequal.
C9_ToleranceMonotone ==
    Returned =>
        /\ \A d \in Deltas :
               DeltaLeq(d, ndelta) =>
                   CoordSet(found) \subseteq
                       CoordSet(DiffNum(kind, kind, num1, num2, shape, d))
        /\ ndelta.n = 0 =>
               found = Nonzero([p \in 1..Len(num1) |->
                                   NotEqual(num1[p], num2[p])], shape)

\* C10: symmetry of diff_num. A call returns the same coordinate tuple as the
\* call with the two arrays swapped, whatever branch either call takes.
C10_Symmetry ==
    Returned => found = DiffNum(kind, kind, num2, num1, shape, ndelta)

--------------------------------------------------------------------------
(* Claims about the table and dimension steps of a run, checked under Spec *)

\* C11: a column whose formats differ is reported and skipped. When a table
\* unit is done, the column list is not '*' and the two payloads are not both
\* absent, every common column whose two
\* formats differ has its type-mismatch line and no diff_num call (nothing
\* added to the count or taken from the budget), and every other common
\* column that is not excluded by name has been compared by diff_num.
C11_TypeMismatchSkipped ==
    (pc = "next" /\ IsTable /\ u2.xt = u1.xt /\ opts.fx # Star
                /\ ~(tbl.none1 /\ tbl.none2)) =>
        \A c \in 0..(NCol - 1) :
            IF TFormAt(u1, c) # TFormAt(u2, c)
            THEN /\ \E j \in 1..Len(out) : out[j].kind = "type" /\ out[j].n = c
                 /\ \A k \in 1..Len(colDiffs) : colDiffs[k].col # c + 1
            ELSE ~ColExcluded(c) =>
                     \E k \in 1..Len(colDiffs) : colDiffs[k].col = c + 1

\* C12: every reported irregularity is reflected in the verdict. Whenever a
\* unit that reported a column type mismatch is done the accumulator is
\* cleared, and a run that ends returns the accumulator, so the verdict is
\* false.
C12_TypeMismatchInVerdict ==
    /\ (pc = "next" /\ \E j \in 1..Len(out) : out[j].kind = "type") => nodiff = 0
    /\ pc = "done" => ret = nodiff

\* C13: absent table data. With both payloads absent compare_table compares
\* no column and reports no missing data; with exactly one absent it has
\* reported the missing data and cleared the accumulator, and the run has
\* not raised.
C13_AbsentTableData ==
    [][(pc = "data" /\ IsTable /\ dim # <<>> /\ opts.fx # Star /\ pc' = "next") =>
           (colDiffs' = colDiffs /\ out' = out \o NColLines)]_vars
    /\ []((tbl.none1 # tbl.none2) =>
             /\ pc # "raised"
             /\ nodiff = 0
             /\ \E j \in 1..Len(out) : out[j].kind = "nodata")

--------------------------------------------------------------------------
(* Claims about diff_obj, checked under SpecObj *)

\* C14: the keyword value rule. Two floats a, b are reported different iff
\* |a - b| exceeds delta times the smaller of |a| and |b| (that is, exceeds
\* |delta*a| or |delta*b|); 100.0 against 100.05 is not reported at delta
\* 0.001 and is reported at delta 0.0001; at delta 0 floats are reported iff
\* unequal; when a value is not a float the two are reported iff unequal
\* (numbers by value, a string only equal to the same string), whatever delta.
C14_ValueRule ==
    /\ opc = "floats" =>
           /\ odiff = (Abs(obj1.n - obj2.n) * odelta.d
                           > odelta.n * Min(Abs(obj1.n), Abs(obj2.n)))
           /\ odelta.n = 0 => odiff = (obj1.n # obj2.n)
           /\ ({obj1.n, obj2.n} = {10000, 10005} /\ odelta = [n |-> 1, d |-> 1000])
                  => ~odiff
           /\ ({obj1.n, obj2.n} = {10000, 10005} /\ odelta = [n |-> 1, d |-> 10000])
                  => odiff
    /\ opc = "other" =>
           odiff = IF obj1.t = "s" \/ obj2.t = "s"
                   THEN ~(obj1.t = obj2.t /\ obj1.s = obj2.s)
                   ELSE obj1.n # obj2.n

\* 100.0 against 100.05 went through the float rule at delta 0.001 and was
\* not reported
C14_Witness ==
    /\ opc = "floats" /\ obj1 = FltV(10000) /\ obj2 = FltV(10005)
    /\ odelta = [n |-> 1, d |-> 1000] /\ ~odiff

--------------------------------------------------------------------------
(* Claims about the coordinate report, checked under SpecNum *)

\* C15: coordinate reporting. Every printed discrepancy with zero-based
\* storage index (i0, ..., ik-1) is reported at (ik-1 + 1, ..., i0 + 1) with
\* the two elements at that index; two 2x3 arrays that differ only at index
\* (1, 2) give exactly one line, at location (3, 2).
C15_CoordinateReport ==
    npc = "reported" =>
        /\ Len(rep) <= Len(found[1])
        /\ \A p \in 1..Len(rep) :
               LET ix   == [k \in 1..Len(found) |-> found[k][p]]
                   flat == IF Len(shape) = 1 THEN ix[1] ELSE ix[1] * shape[2] + ix[2]
               IN  /\ rep[p].loc = [k \in 1..Len(ix) |-> ix[Len(ix) + 1 - k] + 1]
                   /\ rep[p].v1 = num1[flat + 1]
                   /\ rep[p].v2 = num2[flat + 1]
        /\ ( /\ shape = <<2, 3>> /\ ndelta.n = 0
             /\ \A q \in 1..6 : NotEqual(num1[q], num2[q]) <=> q = 6 )
               => /\ Len(found[1]) = 1
                  /\ Len(rep) = 1 => rep[1].loc = <<3, 2>>

--------------------------------------------------------------------------
\* C16: a specification that means no exclusions (the empty string, '@path'
\* with a missing or blank file) parses to the one-element list holding the
\* empty token, and with that list compare_keyword_value reports every
\* keyword present in both headers whose values differ, whatever its name.
C16_NoExclusions ==
    /\ \A x \in {Inline(<<"">>), FileRef(FALSE, <<>>), FileRef(TRUE, <<>>)} :
           ListParse(x) = <<"">>
    /\ (pc = "comment" /\ opts.vx = <<"">>) =>
           \A k \in (DOMAIN dicts.value1) \cap (DOMAIN dicts.value2) :
               \A m \in 1..Min(Len(dicts.value1[k]), Len(dicts.value2[k])) :
                   DiffObj(dicts.value1[k][m], dicts.value2[k][m], opts.delta) =>
                       \E j \in 1..Len(out) :
                           out[j].kind = "value" /\ out[j].kw = k /\ out[j].n = m

--------------------------------------------------------------------------
\* C17: dimension validation per unit. When the two units differ in NAXIS or
\* in any NAXISi, compare_dim clears the accumulator and returns None; when
\* both have NAXIS = 0 it returns None and leaves the accumulator unchanged.
\* After None neither compare_table nor compare_img runs for the unit, and
\* the loop goes on to the next unit when there is one.
C17_DimensionValidation ==
    /\ [][pc = "dim" =>
            IF u1.dims # u2.dims
            THEN nodiff' = 0 /\ dim' = <<>>
            ELSE IF u1.dims = <<>>
                 THEN nodiff' = nodiff /\ dim' = <<>>
                 ELSE nodiff' = nodiff /\ dim' = <<Len(u1.dims)>> \o u1.dims]_vars
    /\ [][(pc = "data" /\ dim = <<>>) =>
            /\ pc' = "next"
            /\ out' = out /\ colDiffs' = colDiffs /\ tbl' = tbl
            /\ nodiff' = nodiff]_vars
    /\ [][(pc = "next" /\ i + 1 < im1.n) => (pc' = "unit" /\ i' = i + 1)]_vars

\* a unit whose NAXIS1 values differ has been passed over and another unit
\* is still to come
C17_Witness ==
    /\ pc = "next" /\ i + 1 < im1.n
    /\ Len(u1.dims) = Len(u2.dims) /\ u1.dims # u2.dims
    /\ dim = <<>> /\ nodiff = 0 /\ colDiffs = <<>>
    /\ \E j \in 1..Len(out) : out[j].kind = "dims"

--------------------------------------------------------------------------
\* C18: image tolerance policy. When both payloads compared by compare_img
\* are integer-typed, the flagged elements are exactly those with unequal
\* values, for every configured delta; when both are floating-point, diff_num
\* is given the configured delta unchanged.
C18_ImageTolerance ==
    (pc = "next" /\ img # NoImg) =>
        /\ (img.k1 = "i" /\ img.k2 = "i") =>
               img.found = <<SelectSeq([q \in 1..Len(img.d1) |-> q - 1],
                                       LAMBDA q : img.d1[q + 1] # img.d2[q + 1])>>
        /\ (img.k1 = "f" /\ img.k2 = "f") =>
               /\ img.thresh = opts.delta
               /\ img.found = DiffNum("f", "f", img.d1, img.d2, <<Len(img.d1)>>,
                                      opts.delta)

\* two integer images holding -1 and 1 compared with delta 2: flagged,
\* although diff_num with that delta returns nothing for them
C18_Witness ==
    /\ pc = "next" /\ img.k1 = "i" /\ img.k2 = "i"
    /\ opts.delta = [n |-> 2, d |-> 1]
    /\ img.d1 = <<0 - 1>> /\ img.d2 = <<1>>
    /\ img.found = <<<<0>>>>
    /\ DiffNum("i", "i", img.d1, img.d2, <<1>>, opts.delta) = <<<<>>>>

--------------------------------------------------------------------------
\* C19: extras are never excludable. In every unit and for every setting of
\* the exclusion lists, each keyword present in exactly one header and each
\* keyword present in both with different occurrence counts is reported by
\* extra_keywords and clears the accumulator; the values of a keyword are
\* compared only over the first min(count1, count2) occurrences.
C19_ExtrasNeverExcludable ==
    pc \in {"value", "comment"} =>
        LET d1 == dicts.value1
            d2 == dicts.value2
            Has(kd, k) == \E j \in 1..Len(out) : out[j].kind = kd /\ out[j].kw = k
        IN  /\ \A k \in (DOMAIN d1) \ (DOMAIN d2) : Has("extra1", k)
            /\ \A k \in (DOMAIN d2) \ (DOMAIN d1) : Has("extra2", k)
            /\ \A k \in (DOMAIN d1) \cap (DOMAIN d2) :
                   Len(d1[k]) # Len(d2[k]) => Has("count", k)
            /\ ( \/ DOMAIN d1 # DOMAIN d2
                 \/ \E k \in (DOMAIN d1) \cap (DOMAIN d2) : Len(d1[k]) # Len(d2[k]) )
                   => nodiff = 0
            /\ \A j \in 1..Len(out) :
                   out[j].kind = "value" =>
                       out[j].n <= Min(Len(d1[out[j].kw]), Len(d2[out[j].kw]))

\* K occurs twice in one header and once in the other, the comment list is
\* '*': the count is reported and the first occurrence's values are compared
C19_Witness ==
    /\ pc = "comment" /\ opts.cx = Star
    /\ "K" \in (DOMAIN dicts.value1) \cap (DOMAIN dicts.value2)
    /\ Len(dicts.value1["K"]) = 1 /\ Len(dicts.value2["K"]) = 2
    /\ \E j \in 1..Len(out) : out[j].kind = "count" /\ out[j].kw = "K"
    /\ \E j \in 1..Len(out) : out[j].kind = "value" /\ out[j].kw = "K" /\ out[j].n = 1
    /\ nodiff = 0

--------------------------------------------------------------------------
\* C20: whole-run symmetry. For two files with the same number of units and
\* fixed options, fitsdiff(f1, f2) and fitsdiff(f2, f1) return the same
\* verdict.
C20_RunSymmetry == pc = "done" => ret = rev.nodiff

==========================================================================
